---------------------------- MODULE Spec2Model ----------------------------
(***************************************************************************)
(* Satellite tracker: the WGS84 coordinate converter                       *)
(* (coordinate_converter.py) and the N2YO data manager                     *)
(* (satellite_data_manager.py).                                            *)
(*                                                                         *)
(* NUMBERS.  A Python float is modelled as a binary floating point number  *)
(* m * 2^e whose significand m has MantBits bits (binary64 has 53), with   *)
(* round-to-nearest-even after every operation, as IEEE 754 prescribes.    *)
(* The exponent is unbounded and there is one zero, so overflow, underflow *)
(* and the sign of zero are outside the model.  Every arithmetic operator  *)
(* below works on integers below 2^31.  At 28 and at 29 bits the nearest   *)
(* float to pi lies below pi and radians(180) is that float, as in         *)
(* binary64, so the behaviour at longitude +-180 is the one of the code.   *)
(***************************************************************************)
EXTENDS Integers, Sequences, FiniteSets, TLC

\* Bits of a float's significand.
MantBits == 28

Pow2(k) == 2^k

Sgn(n) == IF n < 0 THEN -1 ELSE IF n > 0 THEN 1 ELSE 0

Abs(n) == IF n < 0 THEN -n ELSE n

Min(i, j) == IF i <= j THEN i ELSE j

\* The number of bits of n, 0 <= n < 2^31.
BitLen[n \in Nat] == IF n = 0 THEN 0 ELSE 1 + BitLen[n \div 2]

\* The float m * 2^e; m = 0 or 2^(MantBits-1) <= |m| < 2^MantBits.
Fl(m, e) == [m |-> m, e |-> e]

\* The floats: m 2^e.
Floats == [m : Int, e : Int]

Zero == Fl(0, 0)

One == Fl(Pow2(MantBits - 1), 1 - MantBits)

Two == Fl(Pow2(MantBits - 1), 2 - MantBits)

\* Round to nearest, ties to even: significand m (MantBits bits), the first
\* dropped bit g, and st, whether a later dropped bit is set.
Round[s \in Int, m \in Nat, g \in Nat, st \in BOOLEAN, e \in Int] ==
    IF ~(g = 1 /\ (st \/ m % 2 = 1)) THEN Fl(s * m, e)
    ELSE IF m + 1 = Pow2(MantBits) THEN Fl(s * Pow2(MantBits - 1), e + 1)
    ELSE Fl(s * (m + 1), e)

FNeg[a \in Floats] == Fl(-a.m, a.e)

FAbs[a \in Floats] == Fl(Abs(a.m), a.e)

\* a * 2^k, exact.
Scale[a \in Floats, k \in Int] == IF a.m = 0 THEN a ELSE Fl(a.m, a.e + k)

\* The float nearest to s * x * 2^e, for 0 < x < 2^31 with L bits.
FromBits[s \in Int, x \in Nat, L \in Nat, e \in Int] ==
    IF L <= MantBits THEN Fl(s * x * Pow2(MantBits - L), e + L - MantBits)
    ELSE Round[s, x \div Pow2(L - MantBits), (x \div Pow2(L - MantBits - 1)) % 2,
               x % Pow2(L - MantBits - 1) # 0, e + L - MantBits]

\* The float nearest to the integer n, |n| < 2^31.
FromInt[n \in Int] == IF n = 0 THEN Zero ELSE FromBits[Sgn(n), Abs(n), BitLen[Abs(n)], 0]

\* The float nearest to (hi * 2^30 + lo) * 2^e, for 2^29 <= hi < 2^30 and
\* 0 <= lo < 2^30: a literal given to 60 bits.
FromLimbs(hi, lo, e) ==
    IF MantBits = 30
    THEN Round[1, hi, lo \div Pow2(29), lo % Pow2(29) # 0, e + 30]
    ELSE Round[1, hi \div Pow2(30 - MantBits), (hi \div Pow2(29 - MantBits)) % 2,
               hi % Pow2(29 - MantBits) # 0 \/ lo # 0, e + 60 - MantBits]

\* x * y for 0 <= x, y < 2^30 as <<hi, lo>>: x * y = hi * 2^30 + lo, lo < 2^30.
WideMul[x \in Nat, y \in Nat] ==
    LET H   == 32768
        low == (x % H) * (y % H)
        mid == (x \div H) * (y % H) + (x % H) * (y \div H) + low \div H
    IN  <<(x \div H) * (y \div H) + mid \div H, (mid % H) * H + (low % H)>>

\* The float nearest to s * (hi * 2^30 + lo) * 2^e, the product of two significands.
RoundWide[s \in Int, hi \in Nat, lo \in Nat, e \in Int] ==
    LET sh == IF hi >= Pow2(2 * MantBits - 31) THEN MantBits ELSE MantBits - 1
    IN  Round[s, hi * Pow2(30 - sh) + lo \div Pow2(sh), (lo \div Pow2(sh - 1)) % 2,
              lo % Pow2(sh - 1) # 0, e + sh]

RoundPair[s \in Int, w \in Seq(Nat), e \in Int] == RoundWide[s, w[1], w[2], e]

\* Python's a * b on floats.
FMul[a \in Floats, b \in Floats] ==
    IF a.m = 0 \/ b.m = 0 THEN Zero
    ELSE RoundPair[Sgn(a.m) * Sgn(b.m), WideMul[Abs(a.m), Abs(b.m)], a.e + b.e]

\* Long division, DivBits quotient bits a step: n more bits of q from r / d.
DivBits == 31 - MantBits

DivLoop[q \in Nat, r \in Nat, d \in Nat, n \in Nat] ==
    IF n = 0 THEN <<q, r>>
    ELSE DivLoop[q * Pow2(Min(n, DivBits)) + (r * Pow2(Min(n, DivBits))) \div d,
                 (r * Pow2(Min(n, DivBits))) % d, d, n - Min(n, DivBits)]

\* The float nearest to s * (q + r/d) / 2 * 2^e, q of MantBits + 1 bits.
RoundQuotient[s \in Int, qr \in Seq(Nat), e \in Int] ==
    Round[s, qr[1] \div 2, qr[1] % 2, qr[2] # 0, e]

\* x / y * 2^e for significands x and y.
DivMag[s \in Int, x \in Nat, y \in Nat, e \in Int] ==
    IF x >= y
    THEN RoundQuotient[s, DivLoop[1, x - y, y, MantBits], e - MantBits + 1]
    ELSE RoundQuotient[s, DivLoop[0, x, y, MantBits + 1], e - MantBits]

\* Python's a / b on floats, for b # 0 (b = 0 raises ZeroDivisionError: the
\* callers test the divisor first).
FDiv[a \in Floats, b \in Floats] ==
    IF a.m = 0 THEN Zero
    ELSE DivMag[Sgn(a.m) * Sgn(b.m), Abs(a.m), Abs(b.m), a.e - b.e]

\* The float nearest to s * (M + R / 2^d) * 2^e, for 0 <= R < 2^d and M of L
\* bits, L <= MantBits + 1.
PackMag[s \in Int, M \in Nat, R \in Nat, d \in Nat, e \in Int, L \in Nat] ==
    IF L > MantBits THEN Round[s, M \div 2, M % 2, R # 0, e + 1]
    ELSE IF d = 0 THEN Fl(s * M * Pow2(MantBits - L), e - (MantBits - L))
    ELSE IF L = MantBits
         THEN Round[s, M, R \div Pow2(d - 1), R % Pow2(d - 1) # 0, e]
    ELSE IF MantBits - L >= d
         THEN FromBits[s, M * Pow2(d) + R, BitLen[M * Pow2(d) + R], e - d]
    ELSE Round[s, M * Pow2(MantBits - L) + R \div Pow2(d - (MantBits - L)),
               (R \div Pow2(d - (MantBits - L) - 1)) % 2,
               R % Pow2(d - (MantBits - L) - 1) # 0, e - (MantBits - L)]

\* The float nearest to (S + r / 2^d) * 2^e, for an integer S and 0 <= r < 2^d.
Pack[S \in Int, r \in Nat, d \in Nat, e \in Int] ==
    IF S = 0 /\ r = 0 THEN Zero
    ELSE IF S >= 0 THEN PackMag[1, S, r, d, e, BitLen[S]]
    ELSE IF r = 0 THEN PackMag[-1, -S, 0, d, e, BitLen[-S]]
    ELSE PackMag[-1, -S - 1, Pow2(d) - r, d, e, BitLen[-S - 1]]

\* a + b for a.e >= b.e, neither zero.
AddOrdered[a \in Floats, b \in Floats] ==
    IF a.e - b.e > MantBits + 1 THEN a
    ELSE IF a.e - b.e = MantBits + 1
         THEN \* |b| is below half an ulp of a: the sum rounds to a, unless a is a
              \* power of two and b pulls it more than half way to its predecessor
              IF Abs(a.m) = Pow2(MantBits - 1) /\ Sgn(a.m) # Sgn(b.m)
                 /\ Abs(b.m) > Pow2(MantBits - 1)
              THEN Fl(Sgn(a.m) * (Pow2(MantBits - 1) - 1 + Pow2(MantBits - 1)), a.e - 1)
              ELSE a
    ELSE Pack[a.m + b.m \div Pow2(a.e - b.e), b.m % Pow2(a.e - b.e), a.e - b.e, a.e]

\* Python's a + b on floats.
FAdd[a \in Floats, b \in Floats] ==
    IF a.m = 0 THEN b
    ELSE IF b.m = 0 THEN a
    ELSE AddOrdered[IF a.e >= b.e THEN a ELSE b, IF a.e >= b.e THEN b ELSE a]

\* Python's a - b on floats.
FSub[a \in Floats, b \in Floats] == FAdd[a, FNeg[b]]

FLt[a \in Floats, b \in Floats] == FSub[a, b].m < 0

FLe[a \in Floats, b \in Floats] == FSub[a, b].m <= 0

\* The pair of bits of m * 2^k that lies sh places up.
BitPair[m \in Nat, sh \in Int] ==
    IF sh > 30 \/ sh < -1 THEN 0
    ELSE IF sh = -1 THEN 2 * (m % 2)
    ELSE (m \div Pow2(sh)) % 4

\* One digit of the square root: the next pair of bits comes down.
SqrtStep[root \in Nat, r \in Nat, pair \in Nat] ==
    IF r > root \/ (r = root /\ pair >= 1)
    THEN <<2 * root + 1, 4 * (r - root) + pair - 1>>
    ELSE <<2 * root, 4 * r + pair>>

\* Digit-by-digit square root of M = m * 2^k read as MantBits pairs of bits:
\* after pair j, rr[1] is the integer square root of the pairs so far and rr[2]
\* the remainder.
SqrtLoop[rr \in Seq(Nat), m \in Nat, k \in Nat, j \in Nat] ==
    IF j = MantBits THEN rr
    ELSE SqrtLoop[SqrtStep[rr[1], rr[2], BitPair[m, 2 * (MantBits - 1 - j) - k]],
                  m, k, j + 1]

\* The root rounded: the digits rr of the square root of m * 2^k * 2^(2e).
RoundRoot[rr \in Seq(Nat), e \in Int] ==
    Round[1, rr[1], IF rr[2] > rr[1] THEN 1 ELSE 0, TRUE, e]

\* The square root of m * 2^e where k has the parity of e - MantBits.
SqrtMag[m \in Nat, e \in Int, k \in Nat] ==
    RoundRoot[SqrtLoop[<<0, 0>>, m, k, 0], (e - k) \div 2]

\* math.sqrt(a) for a >= 0, correctly rounded.
FSqrt[a \in Floats] ==
    IF a.m = 0 THEN Zero
    ELSE SqrtMag[a.m, a.e, IF (a.e - MantBits) % 2 = 0 THEN MantBits ELSE MantBits - 1]

\* The reciprocals the series below use.
InvTab ==
    [n \in {2, 6, 12, 20, 30, 42, 56, 72, 90, 110, 132, 156, 182}
            \cup {2 * j + 1 : j \in 1..13} |-> FDiv[One, FromInt[n]]]

\* pi, atan(1/2) and atan(3/2) to 60 bits: <<hi, lo, e>> is (hi * 2^30 + lo) * 2^e.
PiLimbs == <<843314856, 571903011, -58>>

AtanHalfLimbs == <<995675658, 819832756, -61>>

AtanThreeHalvesLimbs == <<1055266725, 16469392, -60>>

\* The float nearest to what FromLimbs leaves of a literal: v - FromLimbs(v).
LimbsLo(l) ==
    LET h == FromLimbs(l[1], l[2], l[3])
        D == l[1] - h.m * Pow2(h.e - l[3] - 30)
    IN  FAdd[Scale[FromInt[D], 30 + l[3]], Scale[FromInt[l[2]], l[3]]]

\* math.pi, and the part of pi it leaves out.
Pi == FromLimbs(PiLimbs[1], PiLimbs[2], PiLimbs[3])

PiLo == LimbsLo(PiLimbs)

PiO2 == Scale[Pi, -1]

PiO2Lo == Scale[PiLo, -1]

PiO4 == Scale[Pi, -2]

PiO4Lo == Scale[PiLo, -2]

ThreePiO4 == FMul[FromInt[3], PiO4]

AtanHalf == FromLimbs(AtanHalfLimbs[1], AtanHalfLimbs[2], AtanHalfLimbs[3])

AtanHalfLo == LimbsLo(AtanHalfLimbs)

AtanThreeHalves ==
    FromLimbs(AtanThreeHalvesLimbs[1], AtanThreeHalvesLimbs[2], AtanThreeHalvesLimbs[3])

AtanThreeHalvesLo == LimbsLo(AtanThreeHalvesLimbs)

\* 1 - (z/d1)(1 - (z/d2)(1 - ...)) for the divisors ds, innermost first.
Cascade[z \in Floats, ds \in Seq(Int), acc \in Floats] ==
    IF ds = <<>> THEN acc
    ELSE Cascade[z, Tail(ds), FSub[One, FMul[FMul[z, InvTab[Head(ds)]], acc]]]

\* sin r and cos r for |r| <= pi/4, by their Taylor series.
KSin[r \in Floats] == FMul[r, Cascade[FMul[r, r], <<156, 110, 72, 42, 20, 6>>, One]]

KCos[r \in Floats] == Cascade[FMul[r, r], <<182, 132, 90, 56, 30, 12, 2>>, One]

\* The multiple k of pi/2 nearest to ax, for 0 <= ax <= 5 pi/4 (every angle the
\* converter meets: radians of a latitude or longitude, or a result of atan2).
QuadrantAbs[ax \in Floats] ==
    IF FLe[ax, PiO4] THEN 0 ELSE IF FLe[ax, ThreePiO4] THEN 1 ELSE 2

Quadrant[x \in Floats] == Sgn(x.m) * QuadrantAbs[FAbs[x]]

\* x - k pi/2, with pi/2 taken as PiO2 + PiO2Lo.
Reduce[x \in Floats, k \in Int] ==
    IF k = 0 THEN x
    ELSE FSub[FSub[x, FMul[FromInt[k], PiO2]], FMul[FromInt[k], PiO2Lo]]

NegIf[b \in BOOLEAN, a \in Floats] == IF b THEN FNeg[a] ELSE a

\* sin(r + q pi/2) for |r| <= pi/4 and q in 0..3.
KSinCos[r \in Floats, q \in 0..3] ==
    NegIf[q >= 2, IF q % 2 = 0 THEN KSin[r] ELSE KCos[r]]

\* sin(x + c pi/2), where k is the quadrant of x.
SinShifted[x \in Floats, k \in Int, c \in 0..1] == KSinCos[Reduce[x, k], (k + c) % 4]

\* math.sin(x)
Sin[x \in Floats] == SinShifted[x, Quadrant[x], 0]

\* math.cos(x)
Cos[x \in Floats] == SinShifted[x, Quadrant[x], 1]

\* 1/n - z (1/(n+2) - z (...)) down from 1/27.
AtanSeries[z \in Floats, n \in Int, acc \in Floats] ==
    IF n < 3 THEN acc
    ELSE AtanSeries[z, n - 2, FSub[InvTab[n], FMul[z, acc]]]

AtanPolyZ[u \in Floats, z \in Floats] ==
    FSub[u, FMul[FMul[u, z], AtanSeries[z, 27, Zero]]]

\* atan u for |u| <= 7/16, by its Taylor series.
AtanPoly[u \in Floats] == AtanPolyZ[u, FMul[u, u]]

Sixteenths(n) == Scale[FromInt[n], -4]

\* atan(x) for x >= 0 reduces its argument around 0, 1/2, 1, 3/2 or infinity:
\* the region of ax, the reduced argument, and the value put back.
AtanRegion[ax \in Floats] ==
    IF FLt[ax, Sixteenths(7)] THEN 0
    ELSE IF FLt[ax, Sixteenths(11)] THEN 1
    ELSE IF FLt[ax, Sixteenths(19)] THEN 2
    ELSE IF FLt[ax, Sixteenths(39)] THEN 3
    ELSE 4

AtanReduced[ax \in Floats, reg \in 0..4] ==
    IF reg = 0 THEN ax
    ELSE IF reg = 1 THEN FDiv[FSub[FMul[Two, ax], One], FAdd[Two, ax]]
    ELSE IF reg = 2 THEN FDiv[FSub[ax, One], FAdd[ax, One]]
    ELSE IF reg = 3
         THEN FDiv[FSub[ax, Sixteenths(24)], FAdd[One, FMul[Sixteenths(24), ax]]]
    ELSE FNeg[FDiv[One, ax]]

AtanHi == <<AtanHalf, PiO4, AtanThreeHalves, PiO2>>

AtanLo == <<AtanHalfLo, PiO4Lo, AtanThreeHalvesLo, PiO2Lo>>

AtanSum[reg \in 0..4, t \in Floats] ==
    IF reg = 0 THEN t ELSE FAdd[AtanHi[reg], FAdd[AtanLo[reg], t]]

AtanAt[ax \in Floats, reg \in 0..4] == AtanSum[reg, AtanPoly[AtanReduced[ax, reg]]]

AtanPos[ax \in Floats] == AtanAt[ax, AtanRegion[ax]]

\* atan2(y, x) from z = atan |y/x|, x and y not zero.
AtanQuadrant[y \in Floats, x \in Floats, z \in Floats] ==
    IF x.m > 0 THEN NegIf[y.m < 0, z]
    ELSE NegIf[y.m < 0, FSub[Pi, FSub[z, PiLo]]]

\* math.atan2(y, x)
Atan2[y \in Floats, x \in Floats] ==
    IF y.m = 0 THEN (IF x.m >= 0 THEN Zero ELSE Pi)
    ELSE IF x.m = 0 THEN NegIf[y.m < 0, PiO2]
    ELSE AtanQuadrant[y, x, AtanPos[FAbs[FDiv[y, x]]]]

\* math.radians and math.degrees multiply by pi/180 and by 180/pi.
DegToRad == FDiv[Pi, FromInt[180]]

RadToDeg == FDiv[FromInt[180], Pi]

Radians[d \in Floats] == FMul[d, DegToRad]

Degrees[r \in Floats] == FMul[r, RadToDeg]

\* A decimal literal n/d of the source or of a caller, as Python rounds it.
Dec(n, d) == FDiv[FromInt[n], FromInt[d]]

\* ---------------------------------------------------------------------------
\* coordinate_converter.py
\* ---------------------------------------------------------------------------

\* The literal 1000 of the km <-> m conversions.
Thousand == FromInt[1000]

\* The mean radius EARTH_RADIUS_KM of the class, in metres, taken for a.
WGS84_a_mean == FromInt[6371000]

\* a = 6378137.0
WGS84_a == FromInt[6378137]

\* The literal 298.257223563 as <<hi, lo, e>>: (hi * 2^30 + lo) * 2^e.
InvFlatLimbs == <<625490732, 976667591, -51>>

\* f = 1 / 298.257223563
WGS84_f == FDiv[One, FromLimbs(InvFlatLimbs[1], InvFlatLimbs[2], InvFlatLimbs[3])]

\* e2 = 2 * f - f * f
WGS84_e2 == FSub[FMul[Two, WGS84_f], FMul[WGS84_f, WGS84_f]]

\* for _ in range(5)
Iterations == 5

NoExc == "none"

\* What a call hands back to its caller: a value, or the exception it raised
\* and the source line that raised it.
Returned(v) == [exc |-> NoExc, line |-> 0, val |-> v]

Raised(ex, ln) == [exc |-> ex, line |-> ln, val |-> <<>>]

\* N = a / math.sqrt(1 - e2 * math.sin(lat) * math.sin(lat)); the divisor is
\* never zero or negative because e2 < 1.
PrimeVertical[lat \in Floats] ==
    LET s == Sin[lat]
    IN  FDiv[WGS84_a, FSqrt[FSub[One, FMul[FMul[WGS84_e2, s], s]]]]

\* Lines 54-56 with a slip: the altitude is subtracted.
g2c_xyz_minus(N, alt_m, lat_rad, lon_rad) ==
    LET r == FMul[FSub[N, alt_m], Cos[lat_rad]]
    IN  <<FMul[r, Cos[lon_rad]], FMul[r, Sin[lon_rad]],
          FMul[FSub[FMul[N, FSub[One, WGS84_e2]], alt_m], Sin[lat_rad]]>>

\* Lines 54-56 with a slip: y is scaled by the longitude itself.
g2c_xyz_lon(N, alt_m, lat_rad, lon_rad) ==
    LET r == FMul[FAdd[N, alt_m], Cos[lat_rad]]
    IN  <<FMul[r, Cos[lon_rad]], FMul[r, lon_rad],
          FMul[FAdd[FMul[N, FSub[One, WGS84_e2]], alt_m], Sin[lat_rad]]>>

\* Lines 54-56: x, y and z in metres.
g2c_xyz(N, alt_m, lat_rad, lon_rad) ==
    LET r == FMul[FAdd[N, alt_m], Cos[lat_rad]]
    IN  <<FMul[r, Cos[lon_rad]], FMul[r, Sin[lon_rad]],
          FMul[FAdd[FMul[N, FSub[One, WGS84_e2]], alt_m], Sin[lat_rad]]>>

\* Line 59: return x / 1000, y / 1000, z / 1000
g2c_return(v) ==
    Returned(<<FDiv[v[1], Thousand], FDiv[v[2], Thousand], FDiv[v[3], Thousand]>>)

\* geodetic_to_cartesian(lat, lon, alt): straight-line code, no branch, no loop.
geodetic_to_cartesian(lat, lon, alt) ==
    LET lat_rad == Radians[lat]
        lon_rad == Radians[lon]
        alt_m   == FMul[alt, Thousand]
        N       == PrimeVertical[lat_rad]
    IN  g2c_return(g2c_xyz(N, alt_m, lat_rad, lon_rad))

\* Lines 14-26 with a slip: the kilometres are taken for metres.
c2g_init_km(x, y, z) ==
    [x_m |-> x, y_m |-> y, z_m |-> z,
     lon |-> Atan2[y, x], p |-> FSqrt[FAdd[FMul[x, x], FMul[y, y]]],
     lat |-> Atan2[z, FMul[FSqrt[FAdd[FMul[x, x], FMul[y, y]]], FSub[One, WGS84_e2]]],
     N |-> Zero, alt |-> Zero, i |-> 0, exc |-> NoExc, line |-> 0]

\* The locals of a cartesian_to_geodetic call, with the exception it raised,
\* if any, and the line that raised it.
Frames ==
    [x_m : Floats, y_m : Floats, z_m : Floats, lon : Floats, p : Floats,
     lat : Floats, N : Floats, alt : Floats, i : Nat, exc : STRING, line : Nat]

\* The locals of cartesian_to_geodetic after lines 14-26, before the loop.
c2g_init(x, y, z) ==
    LET x_m == FMul[x, Thousand]
        y_m == FMul[y, Thousand]
        z_m == FMul[z, Thousand]
        p   == FSqrt[FAdd[FMul[x_m, x_m], FMul[y_m, y_m]]]
    IN  [x_m |-> x_m, y_m |-> y_m, z_m |-> z_m,
         lon |-> Atan2[y_m, x_m], p |-> p,
         lat |-> Atan2[z_m, FMul[p, FSub[One, WGS84_e2]]],
         N |-> Zero, alt |-> Zero, i |-> 0, exc |-> NoExc, line |-> 0]

\* One pass of the loop body, lines 29-31.  A float division by zero raises
\* ZeroDivisionError and leaves the loop with the locals assigned so far.
c2g_iter(fr) ==
    LET N == PrimeVertical[fr.lat]
        c == Cos[fr.lat]
    IN  IF c.m = 0
        THEN [fr EXCEPT !.N = N, !.exc = "ZeroDivisionError", !.line = 30]
        ELSE LET alt == FSub[FDiv[fr.p, c], N]
                 den == FAdd[N, alt]
             IN  IF den.m = 0
                 THEN [fr EXCEPT !.N = N, !.alt = alt,
                                 !.exc = "ZeroDivisionError", !.line = 31]
                 ELSE [fr EXCEPT !.N = N, !.alt = alt, !.i = fr.i + 1,
                          !.lat = Atan2[fr.z_m,
                                        FMul[fr.p, FSub[One, FDiv[FMul[WGS84_e2, N], den]]]]]

\* Lines 34-38 with a slip: the longitude is returned in radians.
c2g_return_radians(fr) ==
    Returned(<<Degrees[fr.lat], fr.lon, FDiv[fr.alt, Thousand]>>)

\* Lines 34-38: the result in degrees and km.
c2g_return(fr) ==
    Returned(<<Degrees[fr.lat], Degrees[fr.lon], FDiv[fr.alt, Thousand]>>)

\* The loop with one pass too many.
LoopContinuesOneMore(fr) == fr.i <= Iterations

\* for _ in range(5): another pass follows while fewer than 5 were made.
LoopContinues(fr) == fr.i < Iterations

\* The loop of line 28: it runs the body until the count is used up or the body raised.
c2g_loop[fr \in Frames] ==
    IF fr.exc # NoExc \/ ~LoopContinues(fr) THEN fr ELSE c2g_loop[c2g_iter(fr)]

\* What the call hands back once the loop is left: the exception of the
\* body, or the result of lines 34-38.
c2g_outcome[fr \in Frames] ==
    IF fr.exc # NoExc THEN Raised(fr.exc, fr.line) ELSE c2g_return(fr)

\* cartesian_to_geodetic(x, y, z)
cartesian_to_geodetic(x, y, z) == c2g_outcome[c2g_loop[c2g_init(x, y, z)]]

\* math.sqrt(sat_x**2 + sat_y**2 + sat_z**2): the distance of a point from
\* the Earth's centre, as the visualizer computes it.
distance_from_center(v) ==
    FSqrt[FAdd[FAdd[FMul[v[1], v[1]], FMul[v[2], v[2]]], FMul[v[3], v[3]]]]

\* ---------------------------------------------------------------------------
\* A caller of the converter.  It calls geodetic_to_cartesian on a position,
\* and may then call it again with another longitude or another altitude, or
\* hand the result to cartesian_to_geodetic; or it calls
\* cartesian_to_geodetic on a Cartesian position of its own.
\* ---------------------------------------------------------------------------

Lats == {FromInt[-89], Zero, FromInt[34], FromInt[89]}

Lons == {FromInt[-180], FromInt[-118], Zero, FromInt[180]}

\* 2^-60 km is an altitude step far below the spacing of the floats near 6378137 m.
TinyAlt == Scale[One, -60]

Alts == {FromInt[-7000], FromInt[-6500], FromInt[-6000], FromInt[-10], Zero, TinyAlt, FromInt[1000]}

\* 2^-50 km off the polar axis.
TinyX == Scale[One, -50]

CartInputs ==
    {<<Zero, Zero, Zero>>, <<Zero, Zero, FromInt[7000]>>, <<Zero, Zero, FromInt[-6357]>>,
     <<TinyX, Zero, Zero>>, <<Zero, TinyX, Zero>>,
     <<Dec(6378137, 1000), Zero, Zero>>, <<One, Zero, Zero>>,
     <<Zero, FromInt[-7000], Zero>>, <<FromInt[4000], FromInt[-3000], FromInt[5000]>>}

NoFrame == [x_m |-> Zero, y_m |-> Zero, z_m |-> Zero, lon |-> Zero, p |-> Zero,
            lat |-> Zero, N |-> Zero, alt |-> Zero, i |-> 0, exc |-> NoExc, line |-> 0]

\* A finished call: the function, its arguments, what it handed back, and how
\* many loop passes and steps it took.
Finished(fn, as, r, i, n) ==
    [fn |-> fn, args |-> as, exc |-> r.exc, line |-> r.line, val |-> r.val,
     iters |-> i, steps |-> n]

NoCall == Finished("none", <<>>, Returned(<<>>), 0, 0)

VARIABLES
    pc,      \* where the caller's current call stands: "idle", "g2c", "c2g", "loop"
    args,    \* the arguments of the current call
    frame,   \* the locals of the current cartesian_to_geodetic call
    steps,   \* steps the current call has taken
    last,    \* the call that finished last
    prev     \* the call that finished before it

convVars == <<pc, args, frame, steps, last, prev>>

VARIABLES
    tpc,        \* each concurrent caller's position: "idle", "g2c", "g2c_ret", "c2g", "loop", "done"
    tcall,      \* the call each concurrent caller makes: an index of ConcCalls, 0 for none
    locals_g2c, \* the locals of the geodetic_to_cartesian calls under way, by frame
    locals_c2g, \* the locals of the cartesian_to_geodetic calls under way, by frame
    tresult,    \* what each concurrent caller's call handed back
    overlapped  \* whether another caller took a step while this caller's call was under way

concVars == <<tpc, tcall, locals_g2c, locals_c2g, tresult, overlapped>>

VARIABLES
    n2yo_api_key, \* SatelliteDataManager.n2yo_api_key
    last_set,     \* the value the most recent set_n2yo_api_key call was given
    base_urls,    \* SatelliteDataManager.base_urls
    http_log,     \* the requests.get calls made so far, oldest first
    net,          \* how the request of the last get_* call went; "none": it sent none
    mresult       \* the get_* method that returned last, and what it returned

mgrVars == <<n2yo_api_key, last_set, base_urls, http_log, net, mresult>>

VARIABLES
    tle_lines,   \* parse_tle: the list the caller passed
    tle_pc,      \* parse_tle: "idle", "loop", "returned" or "raised"
    tle_i,       \* parse_tle: the loop variable i
    satellites,  \* parse_tle: the local list satellites
    tle_arg      \* the list as it was when the caller passed it

tleVars == <<tle_lines, tle_pc, tle_i, satellites, tle_arg>>

VARIABLES
    current_results, \* SatelliteTrackerGUI.current_results
    tree,            \* the rows of results_tree, top to bottom
    status,          \* status_var
    box,             \* the messagebox shown last
    figures,         \* how many times visualize_satellites was called
    windows,         \* how many visualization windows were opened
    search_thread,   \* each search thread: where it is, its result, its place in the loop
    load             \* load_local_data: where it is, its DataFrame, idx, and the
                     \* results and rows there were when it began

guiVars == <<current_results, tree, status, box, figures, windows, search_thread, load>>

vars == <<convVars, concVars, mgrVars, tleVars, guiVars>>

InitConv ==
    /\ pc = "idle"
    /\ args = <<>>
    /\ frame = NoFrame
    /\ steps = 0
    /\ last = NoCall
    /\ prev = NoCall

\* The caller calls geodetic_to_cartesian(lat, lon, alt).
CallG2C(g) ==
    /\ pc = "idle" /\ last = NoCall
    /\ pc' = "g2c" /\ args' = g /\ steps' = 0
    /\ UNCHANGED <<frame, last, prev>>
    /\ UNCHANGED <<concVars, mgrVars, tleVars, guiVars>>

\* ... then the same position at another longitude,
CallG2CLon(lon) ==
    /\ pc = "idle" /\ last.fn = "g2c" /\ prev = NoCall
    /\ lon # last.args[2]
    /\ pc' = "g2c" /\ args' = <<last.args[1], lon, last.args[3]>> /\ steps' = 0
    /\ UNCHANGED <<frame, last, prev>>
    /\ UNCHANGED <<concVars, mgrVars, tleVars, guiVars>>

\* ... or at another altitude,
CallG2CAlt(alt) ==
    /\ pc = "idle" /\ last.fn = "g2c" /\ prev = NoCall
    /\ alt # last.args[3]
    /\ pc' = "g2c" /\ args' = <<last.args[1], last.args[2], alt>> /\ steps' = 0
    /\ UNCHANGED <<frame, last, prev>>
    /\ UNCHANGED <<concVars, mgrVars, tleVars, guiVars>>

\* ... or hands the result to cartesian_to_geodetic.
CallC2GOnResult ==
    /\ pc = "idle" /\ last.fn = "g2c" /\ prev = NoCall
    /\ pc' = "c2g" /\ args' = last.val /\ steps' = 0
    /\ UNCHANGED <<frame, last, prev>>
    /\ UNCHANGED <<concVars, mgrVars, tleVars, guiVars>>

\* The caller calls cartesian_to_geodetic(x, y, z).
CallC2G(c) ==
    /\ pc = "idle" /\ last = NoCall
    /\ pc' = "c2g" /\ args' = c /\ steps' = 0
    /\ UNCHANGED <<frame, last, prev>>
    /\ UNCHANGED <<concVars, mgrVars, tleVars, guiVars>>

\* geodetic_to_cartesian runs from its first line to its return.
G2CBody ==
    /\ pc = "g2c"
    /\ last' = Finished("g2c", args, geodetic_to_cartesian(args[1], args[2], args[3]),
                        0, steps + 1)
    /\ prev' = last
    /\ pc' = "idle" /\ steps' = 0
    /\ UNCHANGED <<args, frame>>
    /\ UNCHANGED <<concVars, mgrVars, tleVars, guiVars>>

\* cartesian_to_geodetic, lines 14-26.
C2GInit ==
    /\ pc = "c2g"
    /\ frame' = c2g_init(args[1], args[2], args[3])
    /\ pc' = "loop" /\ steps' = steps + 1
    /\ UNCHANGED <<args, last, prev>>
    /\ UNCHANGED <<concVars, mgrVars, tleVars, guiVars>>

\* One pass of the loop of line 28.
C2GIter ==
    /\ pc = "loop" /\ frame.exc = NoExc /\ LoopContinues(frame)
    /\ frame' = c2g_iter(frame)
    /\ steps' = steps + 1
    /\ UNCHANGED <<pc, args, last, prev>>
    /\ UNCHANGED <<concVars, mgrVars, tleVars, guiVars>>

\* The loop is over: lines 34-38.
C2GReturn ==
    /\ pc = "loop" /\ frame.exc = NoExc /\ ~LoopContinues(frame)
    /\ last' = Finished("c2g", args, c2g_return(frame), frame.i, steps + 1)
    /\ prev' = last
    /\ pc' = "idle" /\ steps' = 0 /\ frame' = NoFrame
    /\ UNCHANGED args
    /\ UNCHANGED <<concVars, mgrVars, tleVars, guiVars>>

\* The loop body raised: nothing in the function catches it, the caller gets it.
C2GRaise ==
    /\ pc = "loop" /\ frame.exc # NoExc
    /\ last' = Finished("c2g", args, Raised(frame.exc, frame.line), frame.i, steps + 1)
    /\ prev' = last
    /\ pc' = "idle" /\ steps' = 0 /\ frame' = NoFrame
    /\ UNCHANGED args
    /\ UNCHANGED <<concVars, mgrVars, tleVars, guiVars>>

\* The caller forgets what it has and starts over.
Reset ==
    /\ pc = "idle" /\ last # NoCall
    /\ last' = NoCall /\ prev' = NoCall /\ args' = <<>>
    /\ UNCHANGED <<pc, frame, steps>>
    /\ UNCHANGED <<concVars, mgrVars, tleVars, guiVars>>

NextConv ==
    \/ \E g \in Lats \X Lons \X Alts : CallG2C(g)
    \/ \E lon \in Lons : CallG2CLon(lon)
    \/ \E alt \in Alts : CallG2CAlt(alt)
    \/ CallC2GOnResult
    \/ \E c \in CartInputs : CallC2G(c)
    \/ G2CBody
    \/ C2GInit
    \/ C2GIter
    \/ C2GReturn
    \/ C2GRaise
    \/ Reset

\* ---------------------------------------------------------------------------
\* Concurrent callers of the converter.  Both functions are static methods
\* that touch their arguments and their locals only; a call's locals live in
\* its own frame.  Callers run their calls a step at a time, in any order.
\* ---------------------------------------------------------------------------

\* How many callers run at once.
NumCallers == 2

Callers == 1..NumCallers

\* The calls a concurrent caller may make: the function and its arguments.
ConcCalls ==
    << <<"c2g", <<FromInt[4000], FromInt[-3000], FromInt[5000]>> >>,
       <<"c2g", <<Zero, Zero, Zero>> >>,
       <<"g2c", <<FromInt[34], FromInt[-118], FromInt[1000]>> >> >>

\* The locals of geodetic_to_cartesian after lines 43-52.
g2c_locals(lat, lon, alt) ==
    [lat_rad |-> Radians[lat], lon_rad |-> Radians[lon],
     alt_m |-> FMul[alt, Thousand], N |-> PrimeVertical[Radians[lat]]]

NoLocals == [lat_rad |-> Zero, lon_rad |-> Zero, alt_m |-> Zero, N |-> Zero]

\* All callers' calls in one frame: the locals as globals of the module.
FrameShared(t) == 1

\* The frame of caller t's call: every call has its own.
FrameOf(t) == t

\* The callers other than t whose call is under way are overlapped by a step of t.
Overlap(t) ==
    [u \in Callers |-> IF u # t /\ tpc[u] \notin {"idle", "done"} THEN TRUE
                       ELSE overlapped[u]]

InitConc ==
    /\ tpc = [t \in Callers |-> "idle"]
    /\ tcall = [t \in Callers |-> 0]
    /\ locals_g2c = [t \in Callers |-> NoLocals]
    /\ locals_c2g = [t \in Callers |-> NoFrame]
    /\ tresult = [t \in Callers |-> Returned(<<>>)]
    /\ overlapped = [t \in Callers |-> FALSE]

\* Caller t calls one of the two functions.
TCall(t, c) ==
    /\ tpc[t] = "idle"
    /\ tpc' = [tpc EXCEPT ![t] = ConcCalls[c][1]]
    /\ tcall' = [tcall EXCEPT ![t] = c]
    /\ overlapped' = [Overlap(t) EXCEPT ![t] = FALSE]
    /\ UNCHANGED <<locals_g2c, locals_c2g, tresult>>
    /\ UNCHANGED <<convVars, mgrVars, tleVars, guiVars>>

\* geodetic_to_cartesian, lines 43-52: the locals.
TG2CLocals(t) ==
    /\ tpc[t] = "g2c"
    /\ locals_g2c' = [locals_g2c EXCEPT ![FrameOf(t)] =
                         g2c_locals(ConcCalls[tcall[t]][2][1], ConcCalls[tcall[t]][2][2],
                                    ConcCalls[tcall[t]][2][3])]
    /\ tpc' = [tpc EXCEPT ![t] = "g2c_ret"]
    /\ overlapped' = Overlap(t)
    /\ UNCHANGED <<tcall, locals_c2g, tresult>>
    /\ UNCHANGED <<convVars, mgrVars, tleVars, guiVars>>

\* geodetic_to_cartesian, lines 54-59: the result from the locals.
TG2CReturn(t) ==
    /\ tpc[t] = "g2c_ret"
    /\ tresult' = [tresult EXCEPT ![t] =
                      g2c_return(g2c_xyz(locals_g2c[FrameOf(t)].N,
                                         locals_g2c[FrameOf(t)].alt_m,
                                         locals_g2c[FrameOf(t)].lat_rad,
                                         locals_g2c[FrameOf(t)].lon_rad))]
    /\ tpc' = [tpc EXCEPT ![t] = "done"]
    /\ overlapped' = Overlap(t)
    /\ UNCHANGED <<tcall, locals_g2c, locals_c2g>>
    /\ UNCHANGED <<convVars, mgrVars, tleVars, guiVars>>

\* cartesian_to_geodetic, lines 14-26.
TC2GInit(t) ==
    /\ tpc[t] = "c2g"
    /\ locals_c2g' = [locals_c2g EXCEPT ![FrameOf(t)] =
                         c2g_init(ConcCalls[tcall[t]][2][1], ConcCalls[tcall[t]][2][2],
                                  ConcCalls[tcall[t]][2][3])]
    /\ tpc' = [tpc EXCEPT ![t] = "loop"]
    /\ overlapped' = Overlap(t)
    /\ UNCHANGED <<tcall, locals_g2c, tresult>>
    /\ UNCHANGED <<convVars, mgrVars, tleVars, guiVars>>

\* One pass of the loop of line 28.
TC2GIter(t) ==
    /\ tpc[t] = "loop"
    /\ locals_c2g[FrameOf(t)].exc = NoExc /\ LoopContinues(locals_c2g[FrameOf(t)])
    /\ locals_c2g' = [locals_c2g EXCEPT ![FrameOf(t)] = c2g_iter(locals_c2g[FrameOf(t)])]
    /\ overlapped' = Overlap(t)
    /\ UNCHANGED <<tpc, tcall, locals_g2c, tresult>>
    /\ UNCHANGED <<convVars, mgrVars, tleVars, guiVars>>

\* The loop is over: lines 34-38.
TC2GReturn(t) ==
    /\ tpc[t] = "loop"
    /\ locals_c2g[FrameOf(t)].exc = NoExc /\ ~LoopContinues(locals_c2g[FrameOf(t)])
    /\ tresult' = [tresult EXCEPT ![t] = c2g_return(locals_c2g[FrameOf(t)])]
    /\ tpc' = [tpc EXCEPT ![t] = "done"]
    /\ overlapped' = Overlap(t)
    /\ UNCHANGED <<tcall, locals_g2c, locals_c2g>>
    /\ UNCHANGED <<convVars, mgrVars, tleVars, guiVars>>

\* The loop body raised: the caller gets the exception.
TC2GRaise(t) ==
    /\ tpc[t] = "loop"
    /\ locals_c2g[FrameOf(t)].exc # NoExc
    /\ tresult' = [tresult EXCEPT ![t] =
                      Raised(locals_c2g[FrameOf(t)].exc, locals_c2g[FrameOf(t)].line)]
    /\ tpc' = [tpc EXCEPT ![t] = "done"]
    /\ overlapped' = Overlap(t)
    /\ UNCHANGED <<tcall, locals_g2c, locals_c2g>>
    /\ UNCHANGED <<convVars, mgrVars, tleVars, guiVars>>

\* Caller t takes its result; the call's frame is gone.
TCollect(t) ==
    /\ tpc[t] = "done"
    /\ tpc' = [tpc EXCEPT ![t] = "idle"]
    /\ tcall' = [tcall EXCEPT ![t] = 0]
    /\ tresult' = [tresult EXCEPT ![t] = Returned(<<>>)]
    /\ locals_g2c' = [locals_g2c EXCEPT ![FrameOf(t)] = NoLocals]
    /\ locals_c2g' = [locals_c2g EXCEPT ![FrameOf(t)] = NoFrame]
    /\ overlapped' = [Overlap(t) EXCEPT ![t] = FALSE]
    /\ UNCHANGED <<convVars, mgrVars, tleVars, guiVars>>

NextConc ==
    \/ \E t \in Callers : \E c \in 1..Len(ConcCalls) : TCall(t, c)
    \/ \E t \in Callers : TG2CLocals(t)
    \/ \E t \in Callers : TG2CReturn(t)
    \/ \E t \in Callers : TC2GInit(t)
    \/ \E t \in Callers : TC2GIter(t)
    \/ \E t \in Callers : TC2GReturn(t)
    \/ \E t \in Callers : TC2GRaise(t)
    \/ \E t \in Callers : TCollect(t)

\* ---------------------------------------------------------------------------
\* satellite_data_manager.py: the N2YO API key and the two methods that use it
\* ---------------------------------------------------------------------------

\* Python values a key can be: None, or a str.
None == [type |-> "NoneType", val |-> ""]

Str(s) == [type |-> "str", val |-> s]

\* The keys a caller sets: None, the empty string, a blank and two real keys.
Keys == {None, Str(""), Str(" "), Str("k1"), Str("k2")}

\* config.N2YO_API_KEY = ""
N2YO_API_KEY == Str("")

\* config.N2YO_BASE_URL
N2YO_BASE_URL == "https://api.n2yo.com/rest/v1/satellite"

\* config.CELESTRAK_TLE_URL
CELESTRAK_TLE_URL == "https://celestrak.com/NORAD/elements/"

\* No set_n2yo_api_key call was made yet.
Unset == [type |-> "unset", val |-> ""]

\* How many HTTP requests the log keeps: the methods that would send one more
\* are not called once it is full.
MaxRequests == 2

\* `not v` of Python with only None taken for false.
FalsyNoneOnly(v) == v = None

\* `not v` of Python for None and for a str: None and "" are false.
Falsy(v) == v.type = "NoneType" \/ (v.type = "str" /\ v.val = "")

\* {"error": "N2YO API key not set"}
KeyNotSetError == [error |-> "N2YO API key not set"]

\* {"error": f"Request failed: {str(e)}"}
RequestFailedError == [error |-> "Request failed"]

\* response.json() of an answer of the service
ResponseJson == [info |-> "satellites"]

\* The URL of lines 28 and 43: the base, the endpoint with its arguments, and
\* the key that f"{self.n2yo_api_key}" puts after &apiKey=.
Url(endpoint, key) == [base |-> base_urls.n2yo, endpoint |-> endpoint, apiKey |-> key.val]

\* The URL of line 54: the CelesTrak base and the group asked for.
CelestrakUrl(category) == [base |-> base_urls.celestrak, group |-> category]

\* response.text.strip().split('\n') of an answer of CelesTrak: a list of lines.
Lines(l) == [lines |-> l]

ResponseText == Lines(<<"ISS (ZARYA)", "1 25544U", "2 25544">>)

\* What a get_* method returned.
MResult(fn, v) == [fn |-> fn, val |-> v]

NoResult == MResult("none", [none |-> "none"])

\* The body both methods share: the guard on the key, then requests.get on
\* the URL with the outcome the network gives: the parsed answer, or a
\* RequestException caught and turned into an error result.
n2yo_get(fn, endpoint, outcome) ==
    IF Falsy(n2yo_api_key)
    THEN /\ mresult' = MResult(fn, KeyNotSetError)
         /\ net' = "none"
         /\ UNCHANGED http_log
    ELSE /\ Len(http_log) < MaxRequests
         /\ http_log' = Append(http_log, Url(endpoint, n2yo_api_key))
         /\ net' = outcome
         /\ mresult' = MResult(fn, IF outcome = "ok" THEN ResponseJson
                                   ELSE RequestFailedError)

InitMgr ==
    /\ n2yo_api_key = N2YO_API_KEY
    /\ last_set = Unset
    /\ base_urls = [n2yo |-> N2YO_BASE_URL, celestrak |-> CELESTRAK_TLE_URL]
    /\ http_log = <<>>
    /\ net = "none"
    /\ mresult = NoResult

\* set_n2yo_api_key(api_key)
set_n2yo_api_key(api_key) ==
    /\ n2yo_api_key' = api_key
    /\ last_set' = api_key
    /\ UNCHANGED <<base_urls, http_log, net, mresult>>
    /\ UNCHANGED <<convVars, concVars, tleVars, guiVars>>

\* get_satellites_above(lat, lon, alt, radius, category)
get_satellites_above(outcome) ==
    /\ n2yo_get("get_satellites_above", "above", outcome)
    /\ UNCHANGED <<n2yo_api_key, last_set, base_urls>>
    /\ UNCHANGED <<convVars, concVars, tleVars, guiVars>>

\* get_satellite_positions(norad_id, lat, lon, alt, seconds)
get_satellite_positions(outcome) ==
    /\ n2yo_get("get_satellite_positions", "positions", outcome)
    /\ UNCHANGED <<n2yo_api_key, last_set, base_urls>>
    /\ UNCHANGED <<convVars, concVars, tleVars, guiVars>>

\* get_celestrak_tle_data(category): requests.get on the CelesTrak URL; the
\* lines of the answer, or the empty list when a RequestException is caught.
get_celestrak_tle_data(outcome) ==
    /\ Len(http_log) < MaxRequests
    /\ http_log' = Append(http_log, CelestrakUrl("stations"))
    /\ net' = outcome
    /\ mresult' = MResult("get_celestrak_tle_data",
                          IF outcome = "ok" THEN ResponseText ELSE Lines(<<>>))
    /\ UNCHANGED <<n2yo_api_key, last_set, base_urls>>
    /\ UNCHANGED <<convVars, concVars, tleVars, guiVars>>

NextMgr ==
    \/ \E k \in Keys : set_n2yo_api_key(k)
    \/ \E o \in {"ok", "failed"} : get_satellites_above(o)
    \/ \E o \in {"ok", "failed"} : get_satellite_positions(o)
    \/ \E o \in {"ok", "failed"} : get_celestrak_tle_data(o)

\* ---------------------------------------------------------------------------
\* satellite_data_manager.py: parse_tle
\* ---------------------------------------------------------------------------

\* A str is the sequence of its characters.  str.strip() takes these away at
\* both ends, and int() lets them stand around the digits.
Whitespace == {" ", "\t", "\r"}

\* s.strip()
strip(s) ==
    LET kept == {k \in 1..Len(s) : s[k] \notin Whitespace}
    IN  IF kept = {} THEN <<>>
        ELSE SubSeq(s, CHOOSE k \in kept : \A j \in kept : k <= j,
                       CHOOSE k \in kept : \A j \in kept : j <= k)

\* s[2:6]: a slice one character short.
slice_short(s, from, to) == SubSeq(s, from + 1, Min(to - 1, Len(s)))

\* s[from:to] with 0 <= from <= to: the characters at the positions from ..
\* to - 1, counted from 0, that the string has.
slice(s, from, to) == SubSeq(s, from + 1, Min(to, Len(s)))

DigitVal == [c \in {"0", "1", "2", "3", "4", "5", "6", "7", "8", "9"} |->
               CASE c = "0" -> 0 [] c = "1" -> 1 [] c = "2" -> 2 [] c = "3" -> 3
                 [] c = "4" -> 4 [] c = "5" -> 5 [] c = "6" -> 6 [] c = "7" -> 7
                 [] c = "8" -> 8 [] c = "9" -> 9]

\* What int(s) reads of a str: s without the whitespace around it and
\* without a sign in front.
IntDigits(s) ==
    LET t == strip(s)
    IN  IF t # <<>> /\ t[1] \in {"+", "-"} THEN Tail(t) ELSE t

\* int(s) returns: there is a digit, and there are digits only.  Else it
\* raises ValueError.
IntAccepts(s) ==
    LET d == IntDigits(s)
    IN  d # <<>> /\ \A k \in 1..Len(d) : d[k] \in DOMAIN DigitVal

\* int(s), base 10
int(s) ==
    LET d == IntDigits(s)
        t == strip(s)
        v[k \in 0..Len(d)] == IF k = 0 THEN 0 ELSE 10 * v[k - 1] + DigitVal[d[k]]
    IN  IF t[1] = "-" THEN 0 - v[Len(d)] ELSE v[Len(d)]

\* The lines handed to parse_tle: a name line with blanks around the name, a
\* first line whose number is padded with blanks, and a short second line.
TleLineSet ==
    { <<" ", "I", "S", "S", " ">>,
      <<"1", " ", " ", " ", "9", "0", "1", "U">>,
      <<"2", " ", "2", "5", "5">> }

\* The longest list handed to parse_tle.
MaxTleLines == 6

TleInputs == UNION {[1..n -> TleLineSet] : n \in 0..MaxTleLines}

\* The dict of lines 75-80.
TleRecord(i) ==
    [ name     |-> strip(tle_lines[i + 1]),
      norad_id |-> int(slice(tle_lines[i + 2], 2, 7)),
      line1    |-> tle_lines[i + 2],
      line2    |-> tle_lines[i + 3] ]

InitTle ==
    /\ tle_lines = <<>>
    /\ tle_arg = <<>>
    /\ tle_pc = "idle"
    /\ tle_i = 0
    /\ satellites = <<>>

\* parse_tle(tle_lines) is called: satellites = [], and range() starts at 0.
parse_tle_call(lines) ==
    /\ tle_pc = "idle"
    /\ tle_lines' = lines
    /\ tle_arg' = lines
    /\ tle_pc' = "loop"
    /\ tle_i' = 0
    /\ satellites' = <<>>
    /\ UNCHANGED <<convVars, concVars, mgrVars, guiVars>>

\* One pass of the loop with i + 2 < len(tle_lines) in which int() returns: a
\* record is appended.
parse_tle_append ==
    /\ tle_pc = "loop"
    /\ tle_i < Len(tle_lines)
    /\ tle_i + 2 < Len(tle_lines)
    /\ IntAccepts(slice(tle_lines[tle_i + 2], 2, 7))
    /\ satellites' = Append(satellites, TleRecord(tle_i))
    /\ tle_i' = tle_i + 3
    /\ UNCHANGED <<tle_lines, tle_arg, tle_pc>>
    /\ UNCHANGED <<convVars, concVars, mgrVars, guiVars>>

\* One pass of the loop in which int() raises ValueError, which nothing in
\* parse_tle catches.
parse_tle_raise ==
    /\ tle_pc = "loop"
    /\ tle_i < Len(tle_lines)
    /\ tle_i + 2 < Len(tle_lines)
    /\ ~IntAccepts(slice(tle_lines[tle_i + 2], 2, 7))
    /\ tle_pc' = "raised"
    /\ UNCHANGED <<tle_lines, tle_arg, tle_i, satellites>>
    /\ UNCHANGED <<convVars, concVars, mgrVars, guiVars>>

\* One pass of the loop with fewer than three lines left: nothing is done.
parse_tle_skip ==
    /\ tle_pc = "loop"
    /\ tle_i < Len(tle_lines)
    /\ ~(tle_i + 2 < Len(tle_lines))
    /\ tle_i' = tle_i + 3
    /\ UNCHANGED <<tle_lines, tle_arg, tle_pc, satellites>>
    /\ UNCHANGED <<convVars, concVars, mgrVars, guiVars>>

\* range() is exhausted: return satellites.
parse_tle_return ==
    /\ tle_pc = "loop"
    /\ tle_i >= Len(tle_lines)
    /\ tle_pc' = "returned"
    /\ UNCHANGED <<tle_lines, tle_arg, tle_i, satellites>>
    /\ UNCHANGED <<convVars, concVars, mgrVars, guiVars>>

\* The caller is done with the call.
parse_tle_done ==
    /\ tle_pc \in {"returned", "raised"}
    /\ tle_pc' = "idle"
    /\ tle_lines' = <<>>
    /\ tle_arg' = <<>>
    /\ tle_i' = 0
    /\ satellites' = <<>>
    /\ UNCHANGED <<convVars, concVars, mgrVars, guiVars>>

NextTle ==
    \/ \E lines \in TleInputs : parse_tle_call(lines)
    \/ parse_tle_append
    \/ parse_tle_raise
    \/ parse_tle_skip
    \/ parse_tle_return
    \/ parse_tle_done

\* ---------------------------------------------------------------------------
\* satellite_tracker_gui.py: the search threads, load_local_data and
\* visualize_results, which share current_results, the results tree and the
\* status bar
\* ---------------------------------------------------------------------------

\* How many search threads run at once.
NumSearchThreads == 2

SearchThreads == 1..NumSearchThreads

\* How many visualize_satellites calls are counted.
MaxFigures == 1

\* `if idx >= 100: break`
RowLimit == 100

\* d.get(key, default)
get(d, key, default) == IF key \in DOMAIN d THEN d[key] ELSE default

\* `if v` of Python for None and for a float: None and 0.0 are false.
IsTrue(v) == v # None /\ v # Zero

\* What get_satellites_above hands the search thread: an error dict of the
\* data manager, an answer without "above", or an answer with satellites; the
\* second satellite of the first answer is over the equator.
SearchResults ==
    { KeyNotSetError, RequestFailedError, ResponseJson,
      [above |-> << [satname |-> "A1", satid |-> 11, satlat |-> FromInt[34],
                     satlng |-> FromInt[-118], satalt |-> FromInt[1000]],
                    [satname |-> "A2", satid |-> 12, satlat |-> Zero,
                     satlng |-> FromInt[-118], satalt |-> FromInt[1000]] >>],
      [above |-> << [satname |-> "B1", satid |-> 21, satlat |-> FromInt[89],
                     satlng |-> FromInt[180], satalt |-> FromInt[1000]] >>] }

\* "error" in result, with only the data manager's missing-key error seen.
has_error_key_only(result) == result = KeyNotSetError

\* "error" in result
has_error(result) == "error" \in DOMAIN result

\* The satellites of result["above"], none when the key is not there.
above(result) == get(result, "above", <<>>)

\* sat_data as lines 146-153 build it.
sat_fields(sat) ==
    [ name      |-> get(sat, "satname", "Unknown"),
      id        |-> get(sat, "satid", "Unknown"),
      latitude  |-> get(sat, "satlat", Zero),
      longitude |-> get(sat, "satlng", Zero),
      altitude  |-> get(sat, "satalt", Zero),
      x |-> None, y |-> None, z |-> None ]

\* The satellites of the answers.
Satellites == UNION {{above(r)[k] : k \in 1..Len(above(r))} : r \in SearchResults}

\* sat_data as it is appended: x, y and z are filled in only when latitude,
\* longitude and altitude are all true.
sat_data[sat \in Satellites] ==
    LET d == sat_fields(sat)
    IN  IF IsTrue(d.latitude) /\ IsTrue(d.longitude) /\ IsTrue(d.altitude)
        THEN LET v == geodetic_to_cartesian(d.latitude, d.longitude, d.altitude).val
             IN  [d EXCEPT !.x = v[1], !.y = v[2], !.z = v[3]]
        ELSE d

\* The integer nearest to a float, ties to even.
RoundInt[a \in Floats] ==
    IF a.e >= 0 THEN a.m * Pow2(a.e)
    ELSE IF 0 - a.e > 30 THEN 0
    ELSE LET q == Abs(a.m) \div Pow2(0 - a.e)
             r == Abs(a.m) % Pow2(0 - a.e)
             up == 2 * r > Pow2(0 - a.e) \/ (2 * r = Pow2(0 - a.e) /\ q % 2 = 1)
         IN  Sgn(a.m) * (IF up THEN q + 1 ELSE q)

\* f"{v:.4f}" and f"{v:.2f}": the digits, as the integer v * 10^digits rounded.
Fixed(v, digits) == RoundInt[FMul[v, FromInt[10 ^ digits]]]

\* The values of a row of the results tree.
tree_row(d) ==
    <<d.name, d.id, Fixed(d.latitude, 4), Fixed(d.longitude, 4), Fixed(d.altitude, 2)>>

\* The files the dialog hands load_local_data: the DataFrame pd.read_csv makes
\* of each, or no DataFrame when read_csv raises.  One has two rows, one has a
\* second row at the Earth's centre, one has one row more than RowLimit.
CsvRow(v) == [x |-> v[1], y |-> v[2], z |-> v[3], time |-> "1 Jan 2025 00:00:00.000"]

Files ==
    { [path |-> "missing.csv", readable |-> FALSE, rows |-> <<>>],
      [path |-> "two.csv", readable |-> TRUE,
       rows |-> << CsvRow(<<FromInt[4000], FromInt[-3000], FromInt[5000]>>),
                   CsvRow(<<Zero, FromInt[-7000], Zero>>) >>],
      [path |-> "centre.csv", readable |-> TRUE,
       rows |-> << CsvRow(<<Dec(6378137, 1000), Zero, Zero>>),
                   CsvRow(<<Zero, Zero, Zero>>) >>],
      [path |-> "long.csv", readable |-> TRUE,
       rows |-> [i \in 1..(RowLimit + 1) |->
                   IF i % 2 = 1 THEN CsvRow(<<Zero, FromInt[-7000], Zero>>)
                   ELSE CsvRow(<<Dec(6378137, 1000), Zero, Zero>>)]] }

\* The files loaded between searches and alongside them.
ShortFiles == {f \in Files : Len(f.rows) < 3}

\* sat_data of a row with its number counted from 0.
load_entry_from_0(idx, row, geo) ==
    [ name |-> "Satellite_" \o ToString(idx), id |-> "LOCAL_" \o ToString(idx),
      latitude |-> geo[1], longitude |-> geo[2], altitude |-> geo[3],
      x |-> row.x, y |-> row.y, z |-> row.z, time |-> row.time ]

\* sat_data of lines 220-228 for the row at idx, geo being what
\* cartesian_to_geodetic returned for it.
load_entry(idx, row, geo) ==
    [ name |-> "Satellite_" \o ToString(idx + 1), id |-> "LOCAL_" \o ToString(idx + 1),
      latitude |-> geo[1], longitude |-> geo[2], altitude |-> geo[3],
      x |-> row.x, y |-> row.y, z |-> row.z, time |-> row.time ]

\* `not self.current_results`, never true.
no_results_never(results) == FALSE

\* `not self.current_results`
no_results(results) == results = <<>>

\* visualize_satellites(satellites, ...): every satellite that has the keys
\* x, y and z is drawn, and math.sqrt(sat_x**2 + ...) raises TypeError for a
\* coordinate that is None.
visualize_satellites(results) ==
    IF \E k \in 1..Len(results) :
          results[k].x = None \/ results[k].y = None \/ results[k].z = None
    THEN Raised("TypeError", 80)
    ELSE Returned("Figure")

NoBox == [kind |-> "none", text |-> ""]

ThreadIdle == [pc |-> "idle", result |-> <<>>, k |-> 0, sat_data |-> <<>>]

\* The thread function has returned.
ThreadDone == [ThreadIdle EXCEPT !.pc = "done"]

LoadIdle == [pc |-> "idle", file |-> <<>>, idx |-> 0, geo |-> <<>>, sat_data |-> <<>>,
             before |-> <<>>]

InitGui ==
    /\ current_results = <<>>
    /\ tree = <<>>
    /\ status = "Ready"
    /\ box = NoBox
    /\ figures = 0
    /\ windows = 0
    /\ search_thread = [t \in SearchThreads |-> ThreadIdle]
    /\ load = LoadIdle

\* Nothing is under way: no search thread runs and load_local_data is not
\* being executed.
Quiet == load.pc \in {"idle", "returned"} /\ \A t \in SearchThreads : search_thread[t].pc \in {"idle", "done"}

\* search_satellites(): the main thread starts a search thread.
search_satellites(t) ==
    /\ load.pc = "idle"
    /\ search_thread[t].pc = "idle"
    /\ search_thread' = [search_thread EXCEPT ![t].pc = "started"]
    /\ UNCHANGED <<current_results, tree, status, box, figures, windows, load>>
    /\ UNCHANGED <<convVars, concVars, mgrVars, tleVars>>

\* Lines 122-130: the status, the three fields read, and the data manager's
\* answer.
search_get(t, result) ==
    /\ search_thread[t].pc = "started"
    /\ status' = "Searching satellites..."
    /\ search_thread' = [search_thread EXCEPT ![t].pc = "got", ![t].result = result]
    /\ UNCHANGED <<current_results, tree, box, figures, windows, load>>
    /\ UNCHANGED <<convVars, concVars, mgrVars, tleVars>>

\* Lines 122-126 and 177-179: a field holds no number, DoubleVar.get() raises
\* TclError and the handler reports it.
search_except(t) ==
    /\ search_thread[t].pc = "started"
    /\ box' = [kind |-> "showerror", text |-> "Search failed: TclError"]
    /\ status' = "Search failed"
    /\ search_thread' = [search_thread EXCEPT ![t] = ThreadDone]
    /\ UNCHANGED <<current_results, tree, figures, windows, load>>
    /\ UNCHANGED <<convVars, concVars, mgrVars, tleVars>>

\* Lines 132-135: the answer has an "error" key.
search_error(t) ==
    /\ search_thread[t].pc = "got"
    /\ has_error(search_thread[t].result)
    /\ box' = [kind |-> "showerror", text |-> search_thread[t].result.error]
    /\ status' = "Search failed"
    /\ search_thread' = [search_thread EXCEPT ![t] = ThreadDone]
    /\ UNCHANGED <<current_results, tree, figures, windows, load>>
    /\ UNCHANGED <<convVars, concVars, mgrVars, tleVars>>

\* Lines 138-139: the rows of the tree are deleted.
search_clear_tree(t) ==
    /\ search_thread[t].pc = "got"
    /\ ~has_error(search_thread[t].result)
    /\ tree' = <<>>
    /\ search_thread' = [search_thread EXCEPT ![t].pc = "cleared"]
    /\ UNCHANGED <<current_results, status, box, figures, windows, load>>
    /\ UNCHANGED <<convVars, concVars, mgrVars, tleVars>>

\* Line 141: self.current_results = []
search_reset(t) ==
    /\ search_thread[t].pc = "cleared"
    /\ current_results' = <<>>
    /\ search_thread' = [search_thread EXCEPT ![t].pc = "loop", ![t].k = 0]
    /\ UNCHANGED <<tree, status, box, figures, windows, load>>
    /\ UNCHANGED <<convVars, concVars, mgrVars, tleVars>>

\* Lines 144-164: sat_data of the next satellite is built and appended.
search_append(t) ==
    /\ search_thread[t].pc = "loop"
    /\ search_thread[t].k < Len(above(search_thread[t].result))
    /\ search_thread' =
          [search_thread EXCEPT
              ![t].pc = "insert",
              ![t].sat_data = sat_data[above(search_thread[t].result)[search_thread[t].k + 1]]]
    /\ current_results' = Append(current_results, search_thread'[t].sat_data)
    /\ UNCHANGED <<tree, status, box, figures, windows, load>>
    /\ UNCHANGED <<convVars, concVars, mgrVars, tleVars>>

\* Lines 167-173: its row is put at the end of the tree.
search_insert(t) ==
    /\ search_thread[t].pc = "insert"
    /\ tree' = Append(tree, tree_row(search_thread[t].sat_data))
    /\ search_thread' = [search_thread EXCEPT ![t].pc = "loop", ![t].k = @ + 1]
    /\ UNCHANGED <<current_results, status, box, figures, windows, load>>
    /\ UNCHANGED <<convVars, concVars, mgrVars, tleVars>>

\* Line 175: the loop is over, or there is no "above" key.
search_found(t) ==
    /\ search_thread[t].pc = "loop"
    /\ search_thread[t].k >= Len(above(search_thread[t].result))
    /\ status' = "Found " \o ToString(Len(current_results)) \o " satellites"
    /\ search_thread' = [search_thread EXCEPT ![t] = ThreadDone]
    /\ UNCHANGED <<current_results, tree, box, figures, windows, load>>
    /\ UNCHANGED <<convVars, concVars, mgrVars, tleVars>>

\* A thread that has ended is gone; the next search gets a thread of its own.
search_thread_gone(t) ==
    /\ search_thread[t].pc = "done"
    /\ search_thread' = [search_thread EXCEPT ![t] = ThreadIdle]
    /\ UNCHANGED <<current_results, tree, status, box, figures, windows, load>>
    /\ UNCHANGED <<convVars, concVars, mgrVars, tleVars>>

\* load_local_data(), lines 186-192: the dialog gives a file.  (When it gives
\* none the method returns and nothing changes.)
load_local_data(file) ==
    /\ load.pc = "idle"
    /\ load' = [LoadIdle EXCEPT !.pc = "chosen", !.file = file,
                                !.before = <<current_results, tree>>]
    /\ UNCHANGED <<current_results, tree, status, box, figures, windows, search_thread>>
    /\ UNCHANGED <<convVars, concVars, mgrVars, tleVars>>

\* Lines 195-198: the status, and pd.read_csv returns.
load_read ==
    /\ load.pc = "chosen"
    /\ load.file.readable
    /\ status' = "Loading local data..."
    /\ load' = [load EXCEPT !.pc = "read"]
    /\ UNCHANGED <<current_results, tree, box, figures, windows, search_thread>>
    /\ UNCHANGED <<convVars, concVars, mgrVars, tleVars>>

\* Lines 201-202: the rows of the tree are deleted.
load_clear_tree ==
    /\ load.pc = "read"
    /\ tree' = <<>>
    /\ load' = [load EXCEPT !.pc = "cleared"]
    /\ UNCHANGED <<current_results, status, box, figures, windows, search_thread>>
    /\ UNCHANGED <<convVars, concVars, mgrVars, tleVars>>

\* Line 204: self.current_results = []
load_reset ==
    /\ load.pc = "cleared"
    /\ current_results' = <<>>
    /\ load' = [load EXCEPT !.pc = "loop"]
    /\ UNCHANGED <<tree, status, box, figures, windows, search_thread>>
    /\ UNCHANGED <<convVars, concVars, mgrVars, tleVars>>

\* The row the loop of line 207 is at.
load_row == load.file.rows[load.idx + 1]

\* Lines 207-217: the next row, below the limit, is handed to
\* cartesian_to_geodetic.
load_convert ==
    /\ load.pc = "loop"
    /\ load.idx < Len(load.file.rows)
    /\ load.idx < RowLimit
    /\ load' = [load EXCEPT !.pc = "converted",
                            !.geo = cartesian_to_geodetic(load_row.x, load_row.y, load_row.z)]
    /\ UNCHANGED <<current_results, tree, status, box, figures, windows, search_thread>>
    /\ UNCHANGED <<convVars, concVars, mgrVars, tleVars>>

\* Lines 217-230: the call returned lat, lon and alt; sat_data is built and
\* appended.
load_append ==
    /\ load.pc = "converted"
    /\ load.geo.exc = NoExc
    /\ load' = [load EXCEPT !.pc = "insert",
                            !.sat_data = load_entry(load.idx, load_row, load.geo.val)]
    /\ current_results' = Append(current_results, load'.sat_data)
    /\ UNCHANGED <<tree, status, box, figures, windows, search_thread>>
    /\ UNCHANGED <<convVars, concVars, mgrVars, tleVars>>

\* Lines 233-239: its row is put at the end of the tree.
load_insert ==
    /\ load.pc = "insert"
    /\ tree' = Append(tree, tree_row(load.sat_data))
    /\ load' = [load EXCEPT !.pc = "loop", !.idx = @ + 1]
    /\ UNCHANGED <<current_results, status, box, figures, windows, search_thread>>
    /\ UNCHANGED <<convVars, concVars, mgrVars, tleVars>>

\* Line 241: the rows are used up, or the one at RowLimit was reached.
load_loaded ==
    /\ load.pc = "loop"
    /\ (load.idx >= Len(load.file.rows) \/ load.idx >= RowLimit)
    /\ status' = "Loaded " \o ToString(Len(current_results))
                     \o " satellite positions from local data"
    /\ load' = [load EXCEPT !.pc = "returned"]
    /\ UNCHANGED <<current_results, tree, box, figures, windows, search_thread>>
    /\ UNCHANGED <<convVars, concVars, mgrVars, tleVars>>

\* Lines 243-245: pd.read_csv raised, or cartesian_to_geodetic raised for the
\* next row, and the handler reports it.
load_except ==
    /\ \/ load.pc = "chosen" /\ ~load.file.readable
       \/ load.pc = "converted" /\ load.geo.exc # NoExc
    /\ box' = [kind |-> "showerror",
               text |-> "Failed to load file: "
                           \o (IF load.pc = "chosen" THEN "FileNotFoundError" ELSE load.geo.exc)]
    /\ status' = "Load failed"
    /\ load' = [load EXCEPT !.pc = "returned"]
    /\ UNCHANGED <<current_results, tree, figures, windows, search_thread>>
    /\ UNCHANGED <<convVars, concVars, mgrVars, tleVars>>

\* root.mainloop(): the main thread is back in the event loop and takes the
\* next click.
mainloop ==
    /\ load.pc = "returned"
    /\ load' = LoadIdle
    /\ UNCHANGED <<current_results, tree, status, box, figures, windows, search_thread>>
    /\ UNCHANGED <<convVars, concVars, mgrVars, tleVars>>

\* visualize_results() with the fields holding numbers or not: the warning
\* when there are no results; else the figure of the visualizer in a new
\* window, or the status of the handler when something raised.
visualize_results(fields_ok) ==
    /\ load.pc = "idle"
    /\ IF no_results(current_results)
       THEN /\ box' = [kind |-> "showwarning",
                       text |-> "No data to visualize. Please search for satellites first."]
            /\ UNCHANGED <<status, figures, windows>>
       ELSE IF ~fields_ok
       THEN /\ status' = "Visualization failed"
            /\ box' = [kind |-> "showerror", text |-> "Visualization failed: TclError"]
            /\ UNCHANGED <<figures, windows>>
       ELSE /\ figures < MaxFigures
            /\ figures' = figures + 1
            /\ IF visualize_satellites(current_results).exc = NoExc
               THEN /\ windows' = windows + 1
                    /\ status' = "3D visualization created"
                    /\ UNCHANGED box
               ELSE /\ status' = "Visualization failed"
                    /\ box' = [kind |-> "showerror", text |-> "Visualization failed: TypeError"]
                    /\ UNCHANGED windows
    /\ UNCHANGED <<current_results, tree, search_thread, load>>
    /\ UNCHANGED <<convVars, concVars, mgrVars, tleVars>>

\* One operation at a time: a search, a load or a visualization begins when
\* nothing else is under way.
NextGui ==
    \/ \E t \in SearchThreads : Quiet /\ search_satellites(t)
    \/ \E t \in SearchThreads, r \in SearchResults : search_get(t, r)
    \/ \E t \in SearchThreads : search_except(t)
    \/ \E t \in SearchThreads : search_error(t)
    \/ \E t \in SearchThreads : search_clear_tree(t)
    \/ \E t \in SearchThreads : search_reset(t)
    \/ \E t \in SearchThreads : search_append(t)
    \/ \E t \in SearchThreads : search_insert(t)
    \/ \E t \in SearchThreads : search_found(t)
    \/ \E t \in SearchThreads : search_thread_gone(t)
    \/ \E f \in ShortFiles : Quiet /\ load_local_data(f)
    \/ load_read
    \/ load_clear_tree
    \/ load_reset
    \/ load_convert
    \/ load_append
    \/ load_insert
    \/ load_loaded
    \/ load_except
    \/ mainloop
    \/ \E ok \in BOOLEAN : Quiet /\ visualize_results(ok)

\* The main thread executes load_local_data time after time, on files short
\* and long.
NextGuiLoad ==
    \/ \E f \in Files : load_local_data(f)
    \/ load_read
    \/ load_clear_tree
    \/ load_reset
    \/ load_convert
    \/ load_append
    \/ load_insert
    \/ load_loaded
    \/ load_except
    \/ mainloop

\* The search threads run alongside each other and alongside the main
\* thread, which executes load_local_data once.  Each thread makes one
\* search; the searches get the answer with one satellite, and the file has
\* two rows that convert.
NextGuiThreads ==
    \/ \E t \in SearchThreads : search_satellites(t)
    \/ \E t \in SearchThreads, r \in {r \in SearchResults : Len(above(r)) = 1} : search_get(t, r)
    \/ \E t \in SearchThreads : search_clear_tree(t)
    \/ \E t \in SearchThreads : search_reset(t)
    \/ \E t \in SearchThreads : search_append(t)
    \/ \E t \in SearchThreads : search_insert(t)
    \/ \E t \in SearchThreads : search_found(t)
    \/ \E f \in {f \in ShortFiles : f.path = "two.csv"} : load_local_data(f)
    \/ load_read
    \/ load_clear_tree
    \/ load_reset
    \/ load_convert
    \/ load_append
    \/ load_insert
    \/ load_loaded

Init == InitConv /\ InitConc /\ InitMgr /\ InitTle /\ InitGui

SpecConv == Init /\ [][NextConv]_vars

SpecConc == Init /\ [][NextConc]_vars

SpecMgr == Init /\ [][NextMgr]_vars

SpecTle == Init /\ [][NextTle]_vars

SpecGui == Init /\ [][NextGui]_vars

SpecGuiLoad == Init /\ [][NextGuiLoad]_vars

SpecGuiThreads == Init /\ [][NextGuiThreads]_vars

\* ---------------------------------------------------------------------------
\* Properties of the converter
\* ---------------------------------------------------------------------------

\* |u - v| <= tol, computed as a test would: abs(u - v) <= tol.
Within(u, v, tol) == FLe[FAbs[FSub[u, v]], tol]

TolDeg == Dec(1, 100000)

TolKm == Dec(1, 100)

\* The last two calls are a round trip: geodetic_to_cartesian, then
\* cartesian_to_geodetic on what it returned.
IsRoundTrip ==
    /\ prev.fn = "g2c" /\ last.fn = "c2g" /\ last.args = prev.val

\* lat in [-89, 89], lon in [-180, 180], alt in [-10, 1000]
InRoundTripRange(g) ==
    /\ FLe[FromInt[-89], g[1]] /\ FLe[g[1], FromInt[89]]
    /\ FLe[FromInt[-180], g[2]] /\ FLe[g[2], FromInt[180]]
    /\ FLe[FromInt[-10], g[3]] /\ FLe[g[3], FromInt[1000]]

\* C1: round-trip law.  For lat in [-89, 89], lon in [-180, 180] and alt in
\* [-10, 1000] km, cartesian_to_geodetic(geodetic_to_cartesian(lat, lon, alt))
\* returns, without raising, a latitude and a longitude within 1e-5 degrees and
\* an altitude within 0.01 km of the originals.
C1_RoundTrip ==
    (IsRoundTrip /\ InRoundTripRange(prev.args)) =>
        /\ last.exc = NoExc
        /\ Within(last.val[1], prev.args[1], TolDeg)
        /\ Within(last.val[2], prev.args[2], TolDeg)
        /\ Within(last.val[3], prev.args[3], TolKm)

\* A round trip has finished from the corner lat = 89, lon = 180, alt = 1000.
C1_Witness ==
    /\ IsRoundTrip
    /\ prev.args = <<FromInt[89], FromInt[180], FromInt[1000]>>
    /\ last.exc = NoExc

\* C2: cartesian_to_geodetic(0, 0, 0) raises a defined degenerate-position
\* error or returns a sentinel; it never ends in an uncaught arithmetic fault
\* such as a division by zero.
C2_DegenerateDefined ==
    (last.fn = "c2g" /\ last.args = <<Zero, Zero, Zero>>) =>
        last.exc \notin {"ZeroDivisionError", "ValueError", "OverflowError"}

\* C3: cartesian_to_geodetic returns a triple without error whenever x and y
\* are not both zero; a division-by-zero fault occurs only for p = 0.
C3_TotalOffAxis ==
    (last.fn = "c2g" /\ ~(last.args[1] = Zero /\ last.args[2] = Zero)) =>
        (last.exc = NoExc /\ Len(last.val) = 3)

\* C4: a cartesian_to_geodetic call that does not fault makes exactly 5 passes
\* of the loop and then returns; a geodetic_to_cartesian call returns after
\* one straight-line step; a call under way has taken fewer than the 7 steps
\* (lines 14-26, 5 passes, lines 34-38) it can take at most, and is at a
\* position from which its next step can be taken.
C4_FixedIterations ==
    /\ (last.fn = "c2g" /\ last.exc = NoExc) => (last.iters = 5 /\ last.steps = 7)
    /\ last.fn = "g2c" => (last.exc = NoExc /\ last.steps = 1)
    /\ pc # "idle" =>
          /\ steps < 7
          /\ pc \in {"g2c", "c2g", "loop"}
          /\ pc = "loop" => (frame.i <= 5 /\ steps <= frame.i + 2)

\* A cartesian_to_geodetic call has returned a value.
C4_Witness ==
    /\ last.fn = "c2g" /\ last.exc = NoExc
    /\ last.args = <<FromInt[4000], FromInt[-3000], FromInt[5000]>>

\* A geodetic_to_cartesian(0, 0, 0) call has returned.
C6_Witness == last.fn = "g2c" /\ last.args = <<Zero, Zero, Zero>> /\ last.exc = NoExc

\* C6: geodetic_to_cartesian(0, 0, 0) returns x = 6378.137 (the float of that
\* literal) with y and z within 1e-5 of 0.
C6_FixedPoint ==
    (last.fn = "g2c" /\ last.args = <<Zero, Zero, Zero>>) =>
        /\ last.exc = NoExc
        /\ last.val[1] = Dec(6378137, 1000)
        /\ Within(last.val[2], Zero, Dec(1, 100000))
        /\ Within(last.val[3], Zero, Dec(1, 100000))

\* A cartesian_to_geodetic(6378.137, 0, 0) call has finished.
C7_Witness == last.fn = "c2g" /\ last.args = <<Dec(6378137, 1000), Zero, Zero>>

\* C7: cartesian_to_geodetic(6378.137, 0, 0) returns a latitude and a longitude
\* within 1e-5 degrees of 0 and an altitude within 0.01 km of 0.
C7_InverseAtReference ==
    (last.fn = "c2g" /\ last.args = <<Dec(6378137, 1000), Zero, Zero>>) =>
        /\ last.exc = NoExc
        /\ Within(last.val[1], Zero, TolDeg)
        /\ Within(last.val[2], Zero, TolDeg)
        /\ Within(last.val[3], Zero, TolKm)

\* x^2 + y^2 of a returned position, in floats.
PlaneSq(v) == FAdd[FMul[v[1], v[1]], FMul[v[2], v[2]]]

\* The last two calls are geodetic_to_cartesian at the same latitude and
\* altitude and different longitudes.
IsLonPair ==
    /\ prev.fn = "g2c" /\ last.fn = "g2c"
    /\ prev.args[1] = last.args[1] /\ prev.args[3] = last.args[3]
    /\ prev.args[2] # last.args[2]

\* C8 as stated: for fixed lat and alt, z is the same for every longitude and
\* x^2 + y^2 is the same for every longitude.
C8_Exact ==
    IsLonPair => /\ last.val[3] = prev.val[3]
                 /\ PlaneSq(last.val) = PlaneSq(prev.val)

\* 2^-20: about 1e-6.
RelTol == Scale[One, -20]

\* C8 amended: for fixed lat and alt, z is the same float for every longitude,
\* and x^2 + y^2 is the same for every longitude up to rounding: the two
\* values differ by at most 2^-20 of their size.
C8_UpToRounding ==
    IsLonPair => /\ last.val[3] = prev.val[3]
                 /\ Within(PlaneSq(last.val), PlaneSq(prev.val),
                           FMul[RelTol, PlaneSq(prev.val)])

\* Two longitudes of one position away from the axis have been converted.
C8_Witness ==
    /\ IsLonPair
    /\ prev.args = <<FromInt[34], FromInt[-118], FromInt[1000]>>
    /\ last.args[2] = FromInt[180]

\* The last two calls are geodetic_to_cartesian at the same latitude and
\* longitude, the first at the lower altitude.
IsAltPair ==
    /\ prev.fn = "g2c" /\ last.fn = "g2c"
    /\ prev.args[1] = last.args[1] /\ prev.args[2] = last.args[2]
    /\ FLt[prev.args[3], last.args[3]]

\* C9 as stated: for fixed lat and lon, alt1 < alt2 makes the distance from
\* the origin at alt1 strictly smaller than at alt2.
C9_Strict ==
    IsAltPair => FLt[distance_from_center(prev.val), distance_from_center(last.val)]

\* C9 amended: for fixed lat and lon and -6000 km <= alt1 < alt2 <= 1000000 km,
\* the distance from the origin at alt1 is never larger than at alt2, and is
\* strictly smaller when alt2 - alt1 is at least 1 km.
C9_AboveCentre ==
    (/\ IsAltPair
     /\ FLe[FromInt[-6000], prev.args[3]]
     /\ FLe[last.args[3], FromInt[1000000]]) =>
        /\ FLe[distance_from_center(prev.val), distance_from_center(last.val)]
        /\ FLe[One, FSub[last.args[3], prev.args[3]]] =>
              FLt[distance_from_center(prev.val), distance_from_center(last.val)]

\* The altitudes -10 km and 0 km of one position were converted, in that order.
C9_Witness ==
    /\ IsAltPair
    /\ prev.args[3] = FromInt[-10] /\ last.args[3] = Zero

\* ---------------------------------------------------------------------------
\* Properties of concurrent calls
\* ---------------------------------------------------------------------------

\* What call c of ConcCalls hands back when it runs alone, start to end.
CallAlone(c) ==
    IF ConcCalls[c][1] = "g2c"
    THEN geodetic_to_cartesian(ConcCalls[c][2][1], ConcCalls[c][2][2], ConcCalls[c][2][3])
    ELSE cartesian_to_geodetic(ConcCalls[c][2][1], ConcCalls[c][2][2], ConcCalls[c][2][3])

RunAlone == <<CallAlone(1), CallAlone(2), CallAlone(3)>>

\* C5: the two conversion functions are pure and thread-safe.  Under every
\* interleaving of the steps of concurrent calls, a call that has finished
\* handed back exactly what the same call hands back when it runs alone, and
\* two finished calls with the same arguments handed back the same result.
C5_ThreadSafe ==
    /\ \A t \in Callers : tpc[t] = "done" => tresult[t] = RunAlone[tcall[t]]
    /\ \A t, u \in Callers :
          (tpc[t] = "done" /\ tpc[u] = "done" /\ tcall[t] = tcall[u]) =>
              tresult[t] = tresult[u]

\* Caller 1 has finished a cartesian_to_geodetic call during which caller 2
\* took steps, and caller 2 is three passes into the loop of the same call.
C5_Witness ==
    /\ tpc[1] = "done" /\ overlapped[1] /\ tcall[1] = 1
    /\ tpc[2] = "loop" /\ tcall[2] = 1 /\ locals_c2g[2].i = 3

\* ---------------------------------------------------------------------------
\* Properties of the data manager
\* ---------------------------------------------------------------------------

\* The manager's current key as the caller knows it: the value set last, or
\* the default of config.py if none was set.
CurrentKey == IF last_set = Unset THEN N2YO_API_KEY ELSE last_set

\* One of the two N2YO methods has run: it left a result or sent a request.
GetRan ==
    /\ mresult'.fn \in {"get_satellites_above", "get_satellite_positions"}
    /\ (mresult' # mresult \/ http_log' # http_log)

\* C10: after any sequence of set_n2yo_api_key calls, get_satellites_above and
\* get_satellite_positions return {"error": "N2YO API key not set"} and send no
\* HTTP request exactly when the current key is empty or None; when it is not
\* empty they send one request, to their endpoint, with that key, and return
\* something else.
C10_KeyGuard ==
    [][GetRan =>
          IF CurrentKey \in {None, Str("")}
          THEN mresult'.val = KeyNotSetError /\ http_log' = http_log
          ELSE /\ mresult'.val # KeyNotSetError
               /\ Len(http_log') = Len(http_log) + 1
               /\ SubSeq(http_log', 1, Len(http_log)) = http_log
               /\ http_log'[Len(http_log')].apiKey = CurrentKey.val
               /\ http_log'[Len(http_log')].endpoint =
                     (IF mresult'.fn = "get_satellites_above" THEN "above" ELSE "positions")
      ]_vars

\* get_satellite_positions has returned the key error with the key set back to
\* the empty string, after get_satellites_above sent a request with the key k1.
C10_Witness ==
    /\ mresult = MResult("get_satellite_positions", KeyNotSetError)
    /\ last_set = Str("")
    /\ http_log = <<Url("above", Str("k1"))>>

\* ---------------------------------------------------------------------------
\* C11
\* ---------------------------------------------------------------------------

\* One of the three get_* methods has run.
AnyGetRan == mresult' # mresult \/ http_log' # http_log \/ net' # net

\* C11: each call of get_satellites_above, get_satellite_positions and
\* get_celestrak_tle_data sends at most one HTTP request; when that request
\* fails the call returns a result that carries an error string; the API key
\* and the base URLs are left as they were.
C11_FailureGivesErrorString ==
    [][AnyGetRan =>
          /\ Len(http_log') <= Len(http_log) + 1
          /\ SubSeq(http_log', 1, Len(http_log)) = http_log
          /\ (net' = "failed" => "error" \in DOMAIN mresult'.val)
          /\ n2yo_api_key' = n2yo_api_key
          /\ base_urls' = base_urls
      ]_vars


\* ---------------------------------------------------------------------------
\* C18
\* ---------------------------------------------------------------------------

\* The complete groups of three lines of the list passed, counted from 0.
TleGroups == 0..((Len(tle_arg) \div 3) - 1)

\* Characters 2..6 of the line after the name line of group k.
NoradField(k) ==
    LET line1 == tle_arg[3 * k + 2]
    IN  SubSeq(line1, 3, IF Len(line1) < 7 THEN Len(line1) ELSE 7)

\* The records are those of the complete groups, in the order of the list.
RecordsOfGroups ==
    /\ Len(satellites) = Len(tle_arg) \div 3
    /\ \A k \in TleGroups :
          /\ satellites[k + 1].name = strip(tle_arg[3 * k + 1])
          /\ satellites[k + 1].line1 = tle_arg[3 * k + 2]
          /\ satellites[k + 1].line2 = tle_arg[3 * k + 3]
          /\ satellites[k + 1].norad_id = int(NoradField(k))

\* C18 as stated: parse_tle on any list of n lines returns floor(n / 3)
\* records in input order, the k-th from lines 3k, 3k+1 and 3k+2 with norad_id
\* the integer in characters 2..6 of line1, drops a trailing group of one or
\* two lines without error, and does not modify the list.
C18_AnyLines ==
    /\ tle_pc # "raised"
    /\ tle_pc = "returned" => RecordsOfGroups
    /\ tle_lines = tle_arg

\* C18, amended: when characters 2..6 of line1 of every complete group are
\* something int() accepts, parse_tle returns the records of the complete
\* groups in input order and drops a trailing group of one or two lines; when
\* they are not, for some complete group, the call ends in the ValueError of
\* int() and returns nothing.  The list is not modified in either case.
C18_WellFormedLines ==
    /\ tle_pc = "returned" =>
          /\ \A k \in TleGroups : IntAccepts(NoradField(k))
          /\ RecordsOfGroups
    /\ tle_pc = "raised" => \E k \in TleGroups : ~IntAccepts(NoradField(k))
    /\ tle_lines = tle_arg

\* parse_tle has returned for a list of five lines: one record, with the name
\* stripped and the padded number read, and the two trailing lines dropped.
C18_Witness ==
    /\ tle_pc = "returned"
    /\ Len(tle_arg) = 5
    /\ Len(satellites) = 1
    /\ satellites[1].name = <<"I", "S", "S">>
    /\ satellites[1].norad_id = 901


\* ---------------------------------------------------------------------------
\* C12 .. C17: the results list, the tree and the status bar
\* ---------------------------------------------------------------------------

\* The status after a search or a load that went through.
Succeeded ==
    \E n \in 0..RowLimit :
        \/ status = "Found " \o ToString(n) \o " satellites"
        \/ status = "Loaded " \o ToString(n) \o " satellite positions from local data"

\* C12: after a successful search_satellites or load_local_data every entry
\* of current_results has numeric x, y and z, so that visualize_results on a
\* list that is not empty never fails over a coordinate: it plots every
\* satellite and ends in '3D visualization created'.
C12_NumericCoordinates ==
    /\ (Quiet /\ Succeeded) =>
          \A k \in 1..Len(current_results) :
              /\ current_results[k].x # None
              /\ current_results[k].y # None
              /\ current_results[k].z # None
    /\ ~(status = "Visualization failed" /\ box.text = "Visualization failed: TypeError")

\* The rows of the tree are the rows of the entries, one for one.
RowsMatch ==
    /\ Len(tree) = Len(current_results)
    /\ \A k \in 1..Len(tree) : tree[k] = tree_row(current_results[k])

\* All entries come from one answer ...
FromOneAnswer ==
    \E r \in SearchResults :
        /\ Len(current_results) <= Len(above(r))
        /\ \A k \in 1..Len(current_results) : current_results[k] = sat_data[above(r)[k]]

\* ... or from one file.
FromOneFile ==
    \E f \in Files :
        /\ Len(current_results) <= Len(f.rows)
        /\ \A k \in 1..Len(current_results) :
              /\ current_results[k].name = "Satellite_" \o ToString(k)
              /\ current_results[k].x = f.rows[k].x
              /\ current_results[k].y = f.rows[k].y
              /\ current_results[k].z = f.rows[k].z

\* C13: whenever no search and no load is under way, current_results and the
\* rows of the tree hold the same satellites in the same order, all of them
\* from one search answer or one loaded file, however the search threads and
\* load_local_data were interleaved.
C13_OneSourceSameOrder == Quiet => (RowsMatch /\ (FromOneAnswer \/ FromOneFile))

\* C14: the step of a search thread whose answer has an "error" key leaves
\* current_results and the tree as they are and sets the status to
\* 'Search failed'; a search thread changes current_results or the tree only
\* when it holds an answer without that key.
C14_ErrorKeepsResults ==
    [][\A t \in SearchThreads :
          /\ ( /\ search_thread[t].pc = "got"
               /\ "error" \in DOMAIN search_thread[t].result
               /\ search_thread'[t] # search_thread[t] )
             => /\ current_results' = current_results
                /\ tree' = tree
                /\ status' = "Search failed"
                /\ search_thread'[t].pc = "done"
          /\ ( /\ search_thread'[t] # search_thread[t]
               /\ (current_results' # current_results \/ tree' # tree) )
             => /\ search_thread[t].pc \in {"got", "cleared", "loop", "insert"}
                /\ "error" \notin DOMAIN search_thread[t].result
      ]_vars

\* A search has ended on the data manager's request error while the results
\* of an earlier search are still in the list and in the tree.
C14_Witness ==
    /\ status = "Search failed"
    /\ box.text = RequestFailedError.error
    /\ Len(current_results) = 2
    /\ Len(tree) = 2
    /\ \E t \in SearchThreads : search_thread[t].pc = "done"

\* C15: when load_local_data ends in 'Load failed', current_results and the
\* rows of the tree are what they were when the load began.
C15_FailedLoadKeepsResults ==
    [][(load.pc # "returned" /\ load'.pc = "returned" /\ status' = "Load failed")
          => <<current_results', tree'>> = load.before
      ]_vars

\* How many rows a load keeps.
Kept == IF Len(load.file.rows) < RowLimit THEN Len(load.file.rows) ELSE RowLimit

\* C16: a load that went through has replaced current_results with the
\* entries of the first min(n, 100) rows of the file, in the order of the
\* file: the entry of row i is named Satellite_{i+1} and LOCAL_{i+1}, has the
\* row's x, y and z, and has the latitude, longitude and altitude that
\* cartesian_to_geodetic returns for them.  No row from the 100th on is
\* converted or stored.
C16_LoadedEntries ==
    /\ load.idx <= RowLimit
    /\ load.pc \in {"converted", "insert"} => load.idx < RowLimit
    /\ (load.pc = "returned" /\ status # "Load failed") =>
          /\ status = "Loaded " \o ToString(Kept) \o " satellite positions from local data"
          /\ Len(current_results) = Kept
          /\ \A i \in 0..(Kept - 1) :
                LET row == load.file.rows[i + 1]
                    geo == cartesian_to_geodetic(row.x, row.y, row.z).val
                    e   == current_results[i + 1]
                IN  /\ e.name = "Satellite_" \o ToString(i + 1)
                    /\ e.id = "LOCAL_" \o ToString(i + 1)
                    /\ <<e.x, e.y, e.z>> = <<row.x, row.y, row.z>>
                    /\ <<e.latitude, e.longitude, e.altitude>> = geo

\* The file with one row more than the limit has been loaded: 100 entries.
C16_Witness ==
    /\ load.pc = "returned"
    /\ Len(load.file.rows) = RowLimit + 1
    /\ Len(current_results) = RowLimit
    /\ status = "Loaded 100 satellite positions from local data"

\* visualize_results has run: the step is that of no search thread and not
\* of load_local_data.
VisualizeRan ==
    /\ search_thread' = search_thread
    /\ load' = load
    /\ <<box', status', figures', windows'>> # <<box, status, figures, windows>>

\* C17: visualize_results with current_results empty only shows the warning
\* 'No data to visualize': visualize_satellites is not called, no window is
\* opened, the status and current_results stay as they are.  A figure is made
\* only when current_results is not empty.
C17_EmptyOnlyWarns ==
    [][VisualizeRan =>
          /\ current_results' = current_results
          /\ current_results = <<>> =>
                /\ box' = [kind |-> "showwarning",
                           text |-> "No data to visualize. Please search for satellites first."]
                /\ figures' = figures
                /\ windows' = windows
                /\ status' = status
          /\ (figures' # figures \/ windows' # windows) => current_results # <<>>
      ]_vars

\* The warning is up after a search that failed: nothing to show, no figure,
\* and the status still that of the search.
C17_Witness ==
    /\ box.kind = "showwarning"
    /\ current_results = <<>>
    /\ status = "Search failed"
    /\ figures = 0
    /\ windows = 0
=============================================================================
